---- MODULE Spec2Model ----
(***************************************************************************)
(* Model of the streaming chat component ChatInterface                     *)
(* (frontend/src/components/ChatInterface.tsx): the React state of the     *)
(* component, the toast queue, the error classifier parseErrorMessage and  *)
(* the asynchronous submit handler handleSubmit, cut at its await points.  *)
(*                                                                         *)
(* Text is modelled by TLA+ strings; JavaScript values that reach the      *)
(* classifier are records [k, s, d]: k the kind, s the text payload and d  *)
(* the value of the property `detail` (<<>> when absent, <<v>> when set).  *)
(***************************************************************************)
EXTENDS Integers, Sequences, FiniteSets, TLC

VARIABLES
    messages,          \* useState<ChatMessage[]>: Seq of [role, content]
    userMessage,       \* pending input text
    developerMessage,  \* system prompt
    apiKey,            \* credential
    model,             \* model identifier
    isLoading,         \* the in-flight flag
    error,             \* last-error text
    toasts,            \* active notifications: Seq of [id, message, type]
    now,               \* Date.now(); it stands still in the specifications below
    inv,               \* the invocations of handleSubmit, by slot
    fetches,           \* calls of fetch so far
    submits,           \* runs of handleSubmit so far
    clears,            \* runs of clearChat so far
    cls,               \* the last direct call of the classifier
    lastRender,        \* Date.now() at the last render of ChatInterface
    mounted            \* the component is mounted

vars == <<messages, userMessage, developerMessage, apiKey, model, isLoading,
          error, toasts, now, inv, fetches, submits, clears, cls, lastRender,
          mounted>>

(***************************************************************************)
(* Bounds of the model.                                                    *)
(***************************************************************************)
\* runs of handleSubmit
MaxSubmits == 2
\* runs of clearChat
MaxClears == 1
\* handler invocations that may be suspended at an await at the same time
MaxHandlers == 2
\* the clock reads h * HalfTimeout with h <= MaxHalves
MaxHalves == 3

(***************************************************************************)
(* Strings: String.prototype.toLowerCase, includes and trim.               *)
(***************************************************************************)
Upper == "ABCDEFGHIJKLMNOPQRSTUVWXYZ"

Lower == "abcdefghijklmnopqrstuvwxyz"

CharAt(s, i) == SubSeq(s, i, i)

UpperChars == {CharAt(Upper, i) : i \in 1..Len(Upper)}

LowerOf == [c \in UpperChars |->
               CharAt(Lower, CHOOSE i \in 1..Len(Upper) : CharAt(Upper, i) = c)]

LowerChar(c) == IF c \in UpperChars THEN LowerOf[c] ELSE c

RECURSIVE LowerFrom(_, _)
LowerFrom(s, i) ==
    IF i > Len(s) THEN ""
    ELSE LowerChar(CharAt(s, i)) \o LowerFrom(s, i + 1)

toLowerCase(s) == LowerFrom(s, 1)

includes(s, t) ==
    \E i \in 1..(Len(s) - Len(t) + 1) : SubSeq(s, i, i + Len(t) - 1) = t

WhiteSpace == {" ", "\t", "\n"}

RECURSIVE trimStart(_)
trimStart(s) ==
    IF Len(s) > 0 /\ CharAt(s, 1) \in WhiteSpace
    THEN trimStart(SubSeq(s, 2, Len(s)))
    ELSE s

RECURSIVE trimEnd(_)
trimEnd(s) ==
    IF Len(s) > 0 /\ CharAt(s, Len(s)) \in WhiteSpace
    THEN trimEnd(SubSeq(s, 1, Len(s) - 1))
    ELSE s

\* mutant: the text is tested as typed, without trimming
trimOmitted(s) == s

trim(s) == trimEnd(trimStart(s))

(***************************************************************************)
(* JavaScript values handed to the classifier.                             *)
(***************************************************************************)
JsError(m) == [k |-> "Error", s |-> m, d |-> <<>>]

JsString(t) == [k |-> "string", s |-> t, d |-> <<>>]

JsNumber(t) == [k |-> "number", s |-> t, d |-> <<>>]

JsNull == [k |-> "null", s |-> "", d |-> <<>>]

JsUndefined == [k |-> "undefined", s |-> "", d |-> <<>>]

JsArray == [k |-> "array", s |-> "", d |-> <<>>]

\* an object without a `detail` property
JsObject == [k |-> "object", s |-> "", d |-> <<>>]

\* an object whose `detail` property is v
JsDetail(v) == [k |-> "object", s |-> "", d |-> <<v>>]

\* v.detail for a value that is neither null nor undefined
Detail(v) == IF v.d = <<>> THEN JsUndefined ELSE v.d[1]

\* ToBoolean(v), as `||` applies it
Truthy(v) ==
    CASE v.k = "string" -> v.s # ""
      [] v.k = "number" -> v.s \notin {"0", "NaN"}
      [] v.k \in {"null", "undefined"} -> FALSE
      [] OTHER -> TRUE

\* a || b
OrElse(a, b) == IF Truthy(a) THEN a ELSE b

\* the optional parameter `status` when the caller omits it
NoStatus == 0

(***************************************************************************)
(* parseErrorMessage (the classifier).  The result is a record             *)
(* [threw, message, type]: threw = TRUE stands for the TypeError raised by *)
(* errorString.toLowerCase() when errorString is not a string.             *)
(***************************************************************************)
MsgInvalidKey == "Invalid API key. Please check your OpenAI API key and try again."

MsgRateLimit == "Rate limit exceeded or insufficient quota. Please check your OpenAI account."

MsgBadRequest == "Invalid request. Please check your input and selected model."

MsgNotFound == "Model not found. Please select a different model."

MsgServer == "OpenAI service is temporarily unavailable. Please try again later."

MsgNetwork == "Network error. Please check your internet connection and try again."

MsgNotAFunction == "errorString.toLowerCase is not a function"

\* lines 102-105: the text the rules are matched against
ErrorString(e) ==
    IF e.k = "Error" THEN JsString(e.s)
    ELSE IF e.k = "string" THEN e
    ELSE IF e.k \in {"null", "undefined"} THEN JsString("Unknown error occurred")
    ELSE OrElse(Detail(e), JsString("Unknown error occurred"))

Classified(m, t) == [threw |-> FALSE, message |-> m, type |-> t]

Raised(m) == [threw |-> TRUE, message |-> m, type |-> "error"]

\* mutant: the rate-limit rule is tried before the API-key rule
parseErrorMessageRateLimitFirst(e, status) ==
    LET es == ErrorString(e)
        isText == es.k = "string"
        low == IF isText THEN toLowerCase(es.s) ELSE ""
    IN  IF status = 429 THEN Classified(MsgRateLimit, "warning")
        ELSE IF ~isText THEN Raised(MsgNotAFunction)
        ELSE IF includes(low, "rate limit") \/ includes(low, "quota")
             THEN Classified(MsgRateLimit, "warning")
        ELSE IF status = 401 \/ includes(low, "unauthorized") \/ includes(low, "invalid api key")
             THEN Classified(MsgInvalidKey, "error")
        ELSE IF status = 400 \/ includes(low, "bad request")
             THEN Classified(MsgBadRequest, "error")
        ELSE IF status = 404 \/ includes(low, "not found")
             THEN Classified(MsgNotFound, "error")
        ELSE IF status = 500 \/ includes(low, "internal server error")
             THEN Classified(MsgServer, "error")
        ELSE IF includes(low, "network") \/ includes(low, "fetch")
             THEN Classified(MsgNetwork, "error")
        ELSE Classified("Error: " \o es.s, "error")

\* lines 101-155.  Rule 1 is `status === 401 || errorString.toLowerCase()...`:
\* with status 401 the text is not inspected; otherwise toLowerCase is
\* called first and raises when errorString is not a string.
parseErrorMessage(e, status) ==
    LET es == ErrorString(e)
        isText == es.k = "string"
        low == IF isText THEN toLowerCase(es.s) ELSE ""
    IN  IF status = 401 THEN Classified(MsgInvalidKey, "error")
        ELSE IF ~isText THEN Raised(MsgNotAFunction)
        ELSE IF includes(low, "unauthorized") \/ includes(low, "invalid api key")
             THEN Classified(MsgInvalidKey, "error")
        ELSE IF status = 429 \/ includes(low, "rate limit") \/ includes(low, "quota")
             THEN Classified(MsgRateLimit, "warning")
        ELSE IF status = 400 \/ includes(low, "bad request")
             THEN Classified(MsgBadRequest, "error")
        ELSE IF status = 404 \/ includes(low, "not found")
             THEN Classified(MsgNotFound, "error")
        ELSE IF status = 500 \/ includes(low, "internal server error")
             THEN Classified(MsgServer, "error")
        ELSE IF includes(low, "network") \/ includes(low, "fetch")
             THEN Classified(MsgNetwork, "error")
        ELSE Classified("Error: " \o es.s, "error")

(***************************************************************************)
(* TextDecoder.decode(value, {stream: true}) for UTF-8, on the bytes the   *)
(* model uses: ASCII bytes, and the two-byte sequence 195 169.  The        *)
(* decoder keeps an unfinished sequence in `pending` between calls.        *)
(***************************************************************************)
AsciiBytes == {32, 33, 72, 101, 104, 105, 108, 111, 114, 116}

AsciiChar(b) ==
    CASE b = 32 -> " "   [] b = 33 -> "!"   [] b = 72 -> "H"
      [] b = 101 -> "e"  [] b = 104 -> "h"  [] b = 105 -> "i"
      [] b = 108 -> "l"  [] b = 111 -> "o"  [] b = 114 -> "r"
      [] b = 116 -> "t"

\* the character U+00E9, encoded 195 169
EAcute == "e'"

\* U+FFFD, which the decoder emits for a malformed sequence
Replacement == "?"

\* decode(bytes) with decoder state pend: [text, pending]
RECURSIVE decode(_, _)
decode(bytes, pend) ==
    IF bytes = <<>> THEN [text |-> "", pending |-> pend]
    ELSE LET b == Head(bytes)
             rest == Tail(bytes)
         IN  IF pend = <<>>
             THEN IF b \in AsciiBytes
                  THEN LET r == decode(rest, <<>>)
                       IN  [r EXCEPT !.text = AsciiChar(b) \o @]
                  ELSE IF b = 195
                  THEN decode(rest, <<195>>)
                  ELSE LET r == decode(rest, <<>>)
                       IN  [r EXCEPT !.text = Replacement \o @]
             ELSE IF b = 169
                  THEN LET r == decode(rest, <<>>)
                       IN  [r EXCEPT !.text = EAcute \o @]
                  ELSE LET r == decode(bytes, <<>>)
                       IN  [r EXCEPT !.text = Replacement \o @]

(***************************************************************************)
(* Inputs of the environment.                                              *)
(***************************************************************************)
UserTexts == {"", " ", "Hi"}

ApiKeys == {"", " ", "sk-test"}

Models == {"gpt-4.1-mini", "gpt-4"}

SystemPrompts == {"", "Be brief."}

ErrStatuses == {401, 503}

StatusText(s) ==
    CASE s = 400 -> "Bad Request"
      [] s = 401 -> "Unauthorized"
      [] s = 404 -> "Not Found"
      [] s = 429 -> "Too Many Requests"
      [] s = 500 -> "Internal Server Error"
      [] s = 503 -> "Service Unavailable"

\* what response.json() resolves to for an error response
ErrorBodies ==
    { JsDetail(JsString("You exceeded your current quota")),
      JsDetail(JsDetail(JsNumber("7"))),
      JsObject,
      JsNull }

\* what fetch rejects with
FetchErrors == { JsError("Failed to fetch") }

\* what reader.read() rejects with
StreamErrors ==
    { JsError("Network error"), JsError("Error in input stream"),
      JsError("Rate limit") }

ChunkHe == <<72, 101>>

ChunkLlo == <<108, 108, 111>>

ChunkBang == <<33>>

\* a response body: the chunks it delivers and how it ends
Body(chunks, fail) == [chunks |-> chunks, fail |-> fail]

Bodies ==
    { Body(<<>>, <<>>),
      Body(<<ChunkHe, ChunkLlo, ChunkBang>>, <<>>),
      Body(<<<<32>>>>, <<>>),
      Body(<<<<195>>, <<169>>>>, <<>>) }
    \cup { Body(c, <<e>>) : c \in {<<>>, <<ChunkHe>>}, e \in StreamErrors }

(***************************************************************************)
(* The component.                                                          *)
(***************************************************************************)
ToastTimeout == 5000

\* mutant: an empty system prompt is forwarded as it is
DeveloperMessageForwarded == ""

DefaultDeveloperMessage == "You are a helpful assistant."

Handlers == 1..MaxHandlers

NoRequest == [developer_message |-> "", user_message |-> "", model |-> "", api_key |-> ""]

\* A slot of handleSubmit.  pc is the await the invocation is suspended at:
\* "fetch" (line 183), "json" (line 200), "read" (line 229), or "idle".
\* pre, got, pushed and outcome record the history of the invocation: the
\* message list before it, the text of each chunk, the number of toasts it added.
IdleInv ==
    [pc |-> "idle", status |-> NoStatus, req |-> NoRequest, content |-> "",
     pending |-> <<>>, chunks |-> <<>>, fail |-> <<>>,
     pre |-> <<>>, input |-> "", got |-> <<>>, pushed |-> 0, outcome |-> "none"]

ChatMessage(r, c) == [role |-> r, content |-> c]

\* prev.slice(0, -1)
Slice(ms) == SubSeq(ms, 1, Len(ms) - 1)

\* mutant: each chunk adds a message of its own
UpdateLastAppends(ms, c) == Append(ms, ChatMessage("assistant", c))

\* lines 236-243: the updater of the read loop.  On an empty array the
\* assignment to index -1 adds no element.
UpdateLast(ms, c) ==
    IF Len(ms) = 0 THEN ms
    ELSE [ms EXCEPT ![Len(ms)] = [@ EXCEPT !.content = c]]

Toast(m, t) == [id |-> ToString(now), message |-> m, type |-> t]

\* lines 91-94
addToast(ts, m, t) == Append(ts, Toast(m, t))

RECURSIVE Filter(_, _)
Filter(ts, id) ==
    IF ts = <<>> THEN <<>>
    ELSE IF Head(ts).id # id THEN <<Head(ts)>> \o Filter(Tail(ts), id)
    ELSE Filter(Tail(ts), id)

\* mutant: the oldest toast is removed, whatever the id
removeToastOldest(ts, id) == IF ts = <<>> THEN ts ELSE Tail(ts)

\* lines 96-98
removeToast(ts, id) == Filter(ts, id)

Active == {i \in Handlers : inv[i].pc # "idle"}

\* mutant: the Send button stays enabled while a request is in flight
SendDisabledIgnoresLoading == trim(userMessage) = "" \/ trim(apiKey) = ""

\* line 450: the `disabled` attribute of the Send button
SendDisabled == isLoading \/ trim(userMessage) = "" \/ trim(apiKey) = ""

\* line 444: the `disabled` attribute of the message input
InputDisabled == isLoading

Init ==
    /\ messages = <<>>
    /\ userMessage = ""
    /\ developerMessage = ""
    /\ apiKey = ""
    /\ model = "gpt-4.1-mini"
    /\ isLoading = FALSE
    /\ error = ""
    /\ toasts = <<>>
    /\ now = 0
    /\ inv = [i \in Handlers |-> IdleInv]
    /\ fetches = 0
    /\ submits = 0
    /\ clears = 0
    /\ cls = <<>>
    /\ lastRender = 0
    /\ mounted = TRUE

\* A state setter was called: ChatInterface renders again.  removeToast is a
\* new function at each render (lines 96-98) and is the onClose of every
\* toast (line 308), so the effect of lines 18-23 runs again for each of
\* them: its timer is cleared and set anew.
Rendered == lastRender' = now

(***************************************************************************)
(* Form fields (onChange handlers, lines 335, 356, 372, 442).              *)
(***************************************************************************)
TypeUserMessage(v) ==
    /\ mounted
    /\ ~InputDisabled
    /\ v # userMessage
    /\ userMessage' = v
    /\ UNCHANGED <<messages, developerMessage, apiKey, model, isLoading, error,
                   toasts, now, inv, fetches, submits, clears, cls, mounted>>
    /\ Rendered

TypeApiKey(v) ==
    /\ mounted
    /\ v # apiKey
    /\ apiKey' = v
    /\ UNCHANGED <<messages, userMessage, developerMessage, model, isLoading, error,
                   toasts, now, inv, fetches, submits, clears, cls, mounted>>
    /\ Rendered

SelectModel(v) ==
    /\ mounted
    /\ v # model
    /\ model' = v
    /\ UNCHANGED <<messages, userMessage, developerMessage, apiKey, isLoading, error,
                   toasts, now, inv, fetches, submits, clears, cls, mounted>>
    /\ Rendered

TypeDeveloperMessage(v) ==
    /\ mounted
    /\ v # developerMessage
    /\ developerMessage' = v
    /\ UNCHANGED <<messages, userMessage, apiKey, model, isLoading, error,
                   toasts, now, inv, fetches, submits, clears, cls, mounted>>
    /\ Rendered

(***************************************************************************)
(* handleSubmit, lines 157-194: from the submit event to the first await.  *)
(***************************************************************************)
handleSubmit ==
    /\ mounted
    /\ submits < MaxSubmits
    /\ submits' = submits + 1
    /\ IF trim(apiKey) = ""
       THEN /\ toasts' = addToast(toasts, "Please enter your OpenAI API key", "warning")
            /\ UNCHANGED <<messages, isLoading, error, inv, fetches>>
       ELSE IF trim(userMessage) = ""
       THEN /\ toasts' = addToast(toasts, "Please enter a message", "warning")
            /\ UNCHANGED <<messages, isLoading, error, inv, fetches>>
       ELSE \E i \in Handlers :
            /\ inv[i].pc = "idle"
            /\ \A j \in Handlers : j < i => inv[j].pc # "idle"
            /\ LET body == [developer_message |->
                                IF developerMessage # "" THEN developerMessage
                                ELSE DefaultDeveloperMessage,
                            user_message |-> userMessage,
                            model |-> model,
                            api_key |-> apiKey]
               IN  /\ error' = ""
                   /\ isLoading' = TRUE
                   /\ messages' = Append(messages, ChatMessage("user", userMessage))
                   /\ fetches' = fetches + 1
                   /\ inv' = [inv EXCEPT ![i] =
                                 [IdleInv EXCEPT !.pc = "fetch", !.req = body,
                                                 !.pre = messages, !.input = userMessage]]
                   /\ UNCHANGED toasts
    /\ UNCHANGED <<userMessage, developerMessage, apiKey, model, now, clears, cls,
                   mounted>>
    /\ Rendered

\* a click on Send (lines 448-454), which the browser delivers only while
\* the button is enabled
ClickSend ==
    /\ ~SendDisabled
    /\ handleSubmit

\* a submit event delivered to the form (line 437) without the Send button
SubmitEvent == handleSubmit

\* mutant: clearing the chat also empties the message input
clearChatAndInput ==
    /\ mounted
    /\ clears < MaxClears
    /\ clears' = clears + 1
    /\ messages' = <<>>
    /\ error' = ""
    /\ userMessage' = ""
    /\ toasts' = addToast(toasts, "Chat cleared", "info")
    /\ UNCHANGED <<developerMessage, apiKey, model, isLoading,
                   now, inv, fetches, submits, cls, mounted>>
    /\ Rendered

\* lines 298-302; the Clear button (lines 455-461) is never disabled
clearChat ==
    /\ mounted
    /\ clears < MaxClears
    /\ clears' = clears + 1
    /\ messages' = <<>>
    /\ error' = ""
    /\ toasts' = addToast(toasts, "Chat cleared", "info")
    /\ UNCHANGED <<userMessage, developerMessage, apiKey, model, isLoading,
                   now, inv, fetches, submits, cls, mounted>>
    /\ Rendered

\* a click on the close button of a toast (line 61)
DismissToast(id) ==
    /\ mounted
    /\ \E k \in 1..Len(toasts) : toasts[k].id = id
    /\ toasts' = removeToast(toasts, id)
    /\ UNCHANGED <<messages, userMessage, developerMessage, apiKey, model, isLoading,
                   error, now, inv, fetches, submits, clears, cls, mounted>>
    /\ Rendered

(***************************************************************************)
(* handleSubmit after its await points.                                    *)
(***************************************************************************)
MsgNoResponse == "No response received from AI. This usually indicates an invalid API key or authentication issue."

MsgConnectionFailed == "Connection failed while reading AI response. This usually indicates an invalid API key or authentication issue. Please check your OpenAI API key."

MsgNullDetail == "Cannot read properties of null (reading 'detail')"

\* String(v), line 262
JsToString(v) ==
    CASE v.k \in {"string", "number", "Error"} -> v.s
      [] v.k = "null" -> "null"
      [] v.k = "undefined" -> "undefined"
      [] v.k = "array" -> ""
      [] OTHER -> "[object Object]"

\* line 294 and the return of the invocation
Finish(i, o, pushed) ==
    [inv EXCEPT ![i] = [@ EXCEPT !.pc = "idle", !.outcome = o,
                                 !.pushed = @ + pushed,
                                 !.req = NoRequest, !.status = NoStatus,
                                 !.chunks = <<>>,
                                 !.pending = <<>>]]

\* mutant: the failure is reported and the message list is left as it is
FailTailKeepsList(i, r, o) ==
    /\ toasts' = addToast(toasts, r.message, r.type)
    /\ error' = r.message
    /\ messages' = messages
    /\ isLoading' = FALSE
    /\ inv' = Finish(i, o, 1)
    /\ UNCHANGED userMessage

\* addToast, setError, slice(0, -1), then `finally`:
\* lines 206-211, 252-257, 275-280 and 288-294
FailTail(i, r, o) ==
    /\ toasts' = addToast(toasts, r.message, r.type)
    /\ error' = r.message
    /\ messages' = Slice(messages)
    /\ isLoading' = FALSE
    /\ inv' = Finish(i, o, 1)
    /\ UNCHANGED userMessage

\* mutant: the outer catch sets the error text and pushes no toast
OuterCatchWithoutToast(i, e, o) ==
    /\ error' = "Failed to send message. Please check your API key and try again."
    /\ messages' = Slice(messages)
    /\ isLoading' = FALSE
    /\ inv' = Finish(i, o, 0)
    /\ UNCHANGED <<toasts, userMessage>>

\* lines 285-295: the outer catch.  When the classifier raises inside it,
\* only `finally` runs and the exception leaves handleSubmit.
OuterCatch(i, e, o) ==
    LET r == parseErrorMessage(e, NoStatus)
    IN  IF r.threw
        THEN /\ isLoading' = FALSE
             /\ inv' = Finish(i, "escaped", 0)
             /\ UNCHANGED <<toasts, error, messages, userMessage>>
        ELSE FailTail(i, r, o)

\* mutant: the stream failure is classified as it is, without a status
StreamCatchAsIs(i, e, o) ==
    LET r == parseErrorMessage(e, NoStatus)
    IN  IF r.threw THEN OuterCatch(i, JsError(r.message), o)
        ELSE FailTail(i, r, o)

\* mutant: the status 401 is passed for a connection failure only
StreamCatchStatusForConnection(i, e, o) ==
    LET errorMessage == IF e.k = "Error" THEN e.s ELSE JsToString(e)
        low == toLowerCase(errorMessage)
        connection == \/ includes(low, "connection")
                      \/ includes(low, "network")
                      \/ includes(low, "chunk")
        r == IF connection
             THEN parseErrorMessage(JsString(MsgConnectionFailed), 401)
             ELSE parseErrorMessage(e, NoStatus)
    IN  IF r.threw THEN OuterCatch(i, JsError(r.message), o)
        ELSE FailTail(i, r, o)

\* lines 259-281: the catch of the read loop
StreamCatch(i, e, o) ==
    LET errorMessage == IF e.k = "Error" THEN e.s ELSE JsToString(e)
        low == toLowerCase(errorMessage)
        finalError == IF \/ includes(low, "connection")
                         \/ includes(low, "network")
                         \/ includes(low, "chunk")
                      THEN JsString(MsgConnectionFailed)
                      ELSE e
        r == parseErrorMessage(finalError, 401)
    IN  IF r.threw THEN OuterCatch(i, JsError(r.message), o)
        ELSE FailTail(i, r, o)

\* lines 197-212: the response is not ok and its body is errorData
NonOk(i, errorData) ==
    IF errorData.k \in {"null", "undefined"}
    THEN OuterCatch(i, JsError(MsgNullDetail), "non2xx")
    ELSE LET r == parseErrorMessage(OrElse(Detail(errorData), errorData), inv[i].status)
         IN  IF r.threw THEN OuterCatch(i, JsError(r.message), "non2xx")
             ELSE FailTail(i, r, "non2xx")

Unchanged1 ==
    UNCHANGED <<developerMessage, apiKey, model, now, fetches, submits, clears, cls,
                mounted>>

\* fetch rejects (line 183)
FetchRejects(i, e) ==
    /\ mounted
    /\ inv[i].pc = "fetch"
    /\ OuterCatch(i, e, "transport")
    /\ Unchanged1
    /\ Rendered

\* fetch resolves with a response that is not ok (line 197)
ResponseError(i, s) ==
    /\ mounted
    /\ inv[i].pc = "fetch"
    /\ inv' = [inv EXCEPT ![i] = [@ EXCEPT !.pc = "json", !.status = s]]
    /\ UNCHANGED <<messages, userMessage, isLoading, error, toasts>>
    /\ Unchanged1
    /\ UNCHANGED lastRender

\* response.json() resolves (line 200)
JsonResolves(i, b) ==
    /\ mounted
    /\ inv[i].pc = "json"
    /\ NonOk(i, b)
    /\ Unchanged1
    /\ Rendered

\* response.json() rejects (lines 201-203)
JsonRejects(i) ==
    /\ mounted
    /\ inv[i].pc = "json"
    /\ NonOk(i, JsDetail(JsString("HTTP " \o ToString(inv[i].status) \o ": "
                                   \o StatusText(inv[i].status))))
    /\ Unchanged1
    /\ Rendered

\* fetch resolves with an ok response whose body is null (lines 215-226, 284)
ResponseOkNoBody(i) ==
    /\ mounted
    /\ inv[i].pc = "fetch"
    /\ messages' = Append(messages, ChatMessage("assistant", ""))
    /\ userMessage' = ""
    /\ isLoading' = FALSE
    /\ inv' = Finish(i, "nobody", 0)
    /\ UNCHANGED <<error, toasts>>
    /\ Unchanged1
    /\ Rendered

\* fetch resolves with an ok response that has a body (lines 215-229)
ResponseOk(i, b) ==
    /\ mounted
    /\ inv[i].pc = "fetch"
    /\ messages' = Append(messages, ChatMessage("assistant", ""))
    /\ inv' = [inv EXCEPT ![i] = [@ EXCEPT !.pc = "read", !.status = 200,
                                           !.chunks = b.chunks, !.fail = b.fail]]
    /\ UNCHANGED <<userMessage, isLoading, error, toasts>>
    /\ Unchanged1
    /\ Rendered

\* reader.read() resolves with a chunk (lines 229-243)
ReadChunk(i) ==
    /\ mounted
    /\ inv[i].pc = "read"
    /\ inv[i].chunks # <<>>
    /\ LET r == decode(Head(inv[i].chunks), inv[i].pending)
           assistantContent == inv[i].content \o r.text
       IN  /\ messages' = UpdateLast(messages, assistantContent)
           /\ inv' = [inv EXCEPT ![i] =
                         [@ EXCEPT !.content = assistantContent,
                                   !.pending = r.pending,
                                   !.chunks = Tail(@),
                                   !.got = Append(@, r.text)]]
    /\ UNCHANGED <<userMessage, isLoading, error, toasts>>
    /\ Unchanged1
    /\ Rendered

\* mutant: the end of the stream is a success whatever was received
ReadDoneWithoutEmptyCheck(i) ==
    /\ mounted
    /\ inv[i].pc = "read"
    /\ inv[i].chunks = <<>>
    /\ inv[i].fail = <<>>
    /\ toasts' = addToast(toasts, "Message sent successfully!", "success")
    /\ userMessage' = ""
    /\ isLoading' = FALSE
    /\ inv' = Finish(i, "success", 1)
    /\ UNCHANGED <<messages, error>>
    /\ Unchanged1
    /\ Rendered

\* reader.read() resolves with done (lines 230, 246-258, 284, 294)
ReadDone(i) ==
    /\ mounted
    /\ inv[i].pc = "read"
    /\ inv[i].chunks = <<>>
    /\ inv[i].fail = <<>>
    /\ IF trim(inv[i].content) # ""
       THEN /\ toasts' = addToast(toasts, "Message sent successfully!", "success")
            /\ userMessage' = ""
            /\ isLoading' = FALSE
            /\ inv' = Finish(i, "success", 1)
            /\ UNCHANGED <<messages, error>>
       ELSE LET r == parseErrorMessage(JsString(MsgNoResponse), 401)
            IN  IF r.threw THEN StreamCatch(i, JsError(r.message), "empty")
                ELSE FailTail(i, r, "empty")
    /\ Unchanged1
    /\ Rendered

\* reader.read() rejects (lines 229, 259-281, 294)
ReadFails(i) ==
    /\ mounted
    /\ inv[i].pc = "read"
    /\ inv[i].chunks = <<>>
    /\ inv[i].fail # <<>>
    /\ StreamCatch(i, inv[i].fail[1], "interrupted")
    /\ Unchanged1
    /\ Rendered

(***************************************************************************)
(* Specifications.                                                         *)
(***************************************************************************)
Fields ==
    \/ \E v \in UserTexts : TypeUserMessage(v)
    \/ \E v \in ApiKeys : TypeApiKey(v)
    \/ \E v \in Models : SelectModel(v)
    \/ \E v \in SystemPrompts : TypeDeveloperMessage(v)

\* the answers of the network, drawn from the given sets
Network(statuses, errorBodies, fetchErrors, bodies) ==
    \/ \E i \in Handlers, e \in fetchErrors : FetchRejects(i, e)
    \/ \E i \in Handlers, s \in statuses : ResponseError(i, s)
    \/ \E i \in Handlers, b \in errorBodies : JsonResolves(i, b)
    \/ \E i \in Handlers : JsonRejects(i)
    \/ \E i \in Handlers : ResponseOkNoBody(i)
    \/ \E i \in Handlers, b \in bodies : ResponseOk(i, b)
    \/ \E i \in Handlers : ReadChunk(i)
    \/ \E i \in Handlers : ReadDone(i)
    \/ \E i \in Handlers : ReadFails(i)

\* the conversation, driven through the message input, the credential
\* input and the buttons
Next ==
    \/ \E v \in UserTexts : TypeUserMessage(v)
    \/ \E v \in ApiKeys : TypeApiKey(v)
    \/ ClickSend
    \/ clearChat
    \/ Network(ErrStatuses, ErrorBodies, FetchErrors, Bodies)

Spec == Init /\ [][Next]_vars

\* Submit events that do not come from the Send button, so that
\* handleSubmit runs in every state of the form, also while another
\* invocation is suspended.  A request is rejected by the network or
\* answered without a body.
FormStatuses == {401}

FormErrorBodies == {JsObject}

FormBodies ==
    { Body(<<>>, <<>>), Body(<<ChunkHe>>, <<>>),
      Body(<<>>, <<JsError("Network error")>>) }

NextForm ==
    \/ \E v \in UserTexts : TypeUserMessage(v)
    \/ \E v \in ApiKeys : TypeApiKey(v)
    \/ ClickSend
    \/ SubmitEvent
    \/ \E i \in Handlers, e \in FetchErrors : FetchRejects(i, e)
    \/ \E i \in Handlers : ResponseOkNoBody(i)

SpecForm == Init /\ [][NextForm]_vars

\* the request: every field of the form, and requests that are rejected by
\* the network or answered without a body
NextRequest ==
    \/ Fields
    \/ ClickSend
    \/ \E i \in Handlers, e \in FetchErrors : FetchRejects(i, e)
    \/ \E i \in Handlers : ResponseOkNoBody(i)

SpecRequest == Init /\ [][NextRequest]_vars

(***************************************************************************)
(* The clock, the timers of the toasts and the teardown of the component.  *)
(***************************************************************************)
HalfTimeout == ToastTimeout \div 2

\* the readings of the clock
Times == {h * HalfTimeout : h \in 0..MaxHalves}

\* lines 18-23: each rendered toast holds a timer, set at the last render
\* and cleared by the cleanup of the effect when the toast unmounts
TimersScheduled == mounted /\ toasts # <<>>

TimersDue == lastRender + ToastTimeout

\* time passes; a timer that is due fires before the clock moves on
Tick ==
    /\ mounted
    /\ (now + HalfTimeout) \in Times
    /\ TimersScheduled => now + HalfTimeout <= TimersDue
    /\ now' = now + HalfTimeout
    /\ UNCHANGED <<messages, userMessage, developerMessage, apiKey, model, isLoading,
                   error, toasts, inv, fetches, submits, clears, cls, lastRender,
                   mounted>>

RECURSIVE RemoveAll(_, _)
RemoveAll(ts, ids) ==
    IF ids = {} THEN ts
    ELSE LET id == CHOOSE x \in ids : TRUE
         IN  RemoveAll(removeToast(ts, id), ids \ {id})

\* lines 19-21: the timers of some of the toasts, those at the positions S,
\* run their callback onClose(toast.id) before the next render
TimersFire ==
    /\ TimersScheduled
    /\ now >= TimersDue
    /\ \E S \in SUBSET (1..Len(toasts)) :
          /\ S # {}
          /\ toasts' = RemoveAll(toasts, {toasts[k].id : k \in S})
    /\ Rendered
    /\ UNCHANGED <<messages, userMessage, developerMessage, apiKey, model, isLoading,
                   error, now, inv, fetches, submits, clears, cls, mounted>>

\* The timer of a toast runs its callback and, before the next render, the
\* close button of the same toast is clicked (lines 20 and 61): onClose runs
\* twice for one id, and both updaters of line 97 are applied in order.
TimeoutThenClose(id) ==
    /\ TimersScheduled
    /\ now >= TimersDue
    /\ \E k \in 1..Len(toasts) : toasts[k].id = id
    /\ toasts' = removeToast(removeToast(toasts, id), id)
    /\ Rendered
    /\ UNCHANGED <<messages, userMessage, developerMessage, apiKey, model, isLoading,
                   error, now, inv, fetches, submits, clears, cls, mounted>>

\* the component is unmounted: the cleanup of line 22 clears the timers of
\* the toasts; handleSubmit registers no cleanup
Unmount ==
    /\ mounted
    /\ mounted' = FALSE
    /\ UNCHANGED <<messages, userMessage, developerMessage, apiKey, model, isLoading,
                   error, toasts, now, inv, fetches, submits, clears, cls, lastRender>>

\* An await of handleSubmit settles after the unmount (lines 183, 200, 229):
\* the invocation runs on to its next await or to its end, and the state
\* setters it calls have no effect on the unmounted component.
DetachedStep(i) ==
    /\ ~mounted
    /\ inv[i].pc # "idle"
    /\ \/ /\ inv[i].pc = "fetch"
          /\ \E b \in FormBodies :
                inv' = [inv EXCEPT ![i] = [@ EXCEPT !.pc = "read", !.status = 200,
                                                    !.chunks = b.chunks, !.fail = b.fail]]
       \/ /\ inv[i].pc = "fetch"
          /\ \E s \in FormStatuses :
                inv' = [inv EXCEPT ![i] = [@ EXCEPT !.pc = "json", !.status = s]]
       \/ /\ inv[i].pc = "read"
          /\ inv[i].chunks # <<>>
          /\ LET r == decode(Head(inv[i].chunks), inv[i].pending)
             IN  inv' = [inv EXCEPT ![i] =
                            [@ EXCEPT !.content = @ \o r.text, !.pending = r.pending,
                                      !.chunks = Tail(@), !.got = Append(@, r.text)]]
       \/ /\ inv[i].pc \in {"fetch", "json"} \/ inv[i].chunks = <<>>
          /\ inv' = Finish(i, "detached", 0)
    /\ UNCHANGED <<messages, userMessage, developerMessage, apiKey, model, isLoading,
                   error, toasts, now, fetches, submits, clears, cls, lastRender,
                   mounted>>

\* the toasts over time: the form, one exchange at a time, the close
\* buttons, the timers and the clock
NextToast ==
    \/ \E v \in {"", "Hi"} : TypeUserMessage(v)
    \/ TypeApiKey("sk-test")
    \/ ClickSend
    \/ clearChat
    \/ \E i \in Handlers, e \in FetchErrors : FetchRejects(i, e)
    \/ \E i \in Handlers : ResponseOk(i, Body(<<ChunkHe>>, <<>>))
    \/ \E i \in Handlers : ReadChunk(i)
    \/ \E i \in Handlers : ReadDone(i)
    \/ \E t \in Times : DismissToast(ToString(t))
    \/ TimersFire
    \/ \E t \in Times : TimeoutThenClose(ToString(t))
    \/ Tick

SpecToast == Init /\ [][NextToast]_vars

\* the component may be unmounted at any moment
NextTeardown ==
    \/ \E v \in UserTexts : TypeUserMessage(v)
    \/ \E v \in ApiKeys : TypeApiKey(v)
    \/ ClickSend
    \/ clearChat
    \/ Network(FormStatuses, FormErrorBodies, FetchErrors, FormBodies)
    \/ Unmount
    \/ \E i \in Handlers : DetachedStep(i)

SpecTeardown == Init /\ [][NextTeardown]_vars

(***************************************************************************)
(* The classifier on its own: parseErrorMessage applied to arguments of    *)
(* every shape its signature (error: unknown, status?: number) admits.     *)
(***************************************************************************)
ClassifyTexts ==
    { "", "Unauthorized", "INVALID API KEY supplied", "Rate Limit reached",
      "You exceeded your current quota", "Bad Request", "Model Not Found",
      "Internal Server Error", "NetworkError when attempting to fetch resource.",
      "Failed to fetch", "Load failed", "unauthorized: rate limit",
      "quota not found", "bad request: internal server error",
      "network unauthorized", "HTTP 503: Service Unavailable" }

ClassifyStatuses == {NoStatus, 200, 400, 401, 404, 429, 500, 503}

\* how a text reaches the classifier: as the message of an Error, as a
\* string, as the `detail` of a decoded body, or inside an object that is
\* the `detail` of a decoded body; and the value null
ClassifyKinds == {"Error", "string", "detail", "object", "null"}

Wrap(kind, text) ==
    CASE kind = "Error" -> JsError(text)
      [] kind = "string" -> JsString(text)
      [] kind = "detail" -> JsDetail(JsString(text))
      [] kind = "object" -> JsDetail(JsDetail(JsString(text)))
      [] kind = "null" -> JsNull

Classify(kind, text, status) ==
    /\ cls' = <<[kind |-> kind, text |-> text, status |-> status,
                 result |-> parseErrorMessage(Wrap(kind, text), status)]>>
    /\ UNCHANGED <<messages, userMessage, developerMessage, apiKey, model, isLoading,
                   error, toasts, now, inv, fetches, submits, clears, lastRender,
                   mounted>>

NextClassify ==
    \E kind \in ClassifyKinds, text \in ClassifyTexts, status \in ClassifyStatuses :
        Classify(kind, text, status)

SpecClassify == Init /\ [][NextClassify]_vars

(***************************************************************************)
(* C4.  The rules of the classifier as the specification lists them.       *)
(***************************************************************************)
RuleStatus == <<401, 429, 400, 404, 500>>

RuleWords ==
    << {"unauthorized", "invalid api key"}, {"rate limit", "quota"}, {"bad request"},
       {"not found"}, {"internal server error"}, {"network", "fetch"} >>

RuleOutcome ==
    << Classified(MsgInvalidKey, "error"), Classified(MsgRateLimit, "warning"),
       Classified(MsgBadRequest, "error"), Classified(MsgNotFound, "error"),
       Classified(MsgServer, "error"), Classified(MsgNetwork, "error") >>

RuleMatches(n, text, status) ==
    \/ n <= Len(RuleStatus) /\ status = RuleStatus[n]
    \/ \E w \in RuleWords[n] : includes(toLowerCase(text), w)

FirstMatch(text, status) ==
    IF \E n \in 1..6 : RuleMatches(n, text, status)
    THEN LET first == CHOOSE n \in 1..6 :
                          /\ RuleMatches(n, text, status)
                          /\ \A m \in 1..(n - 1) : ~RuleMatches(m, text, status)
         IN  RuleOutcome[first]
    ELSE Classified("Error: " \o text, "error")

\* the calls C4 is about: the failure carries a text
TextualCall(c) ==
    \/ c.kind \in {"Error", "string"}
    \/ c.kind = "detail" /\ c.text # ""

\* C4: for every failure text and optional status, the classifier returns
\* the message and severity of the first rule, in the order 1..7, that the
\* status or the lower-cased text matches.
C4_FirstMatchWins ==
    \A k \in 1..Len(cls) :
        TextualCall(cls[k]) => cls[k].result = FirstMatch(cls[k].text, cls[k].status)

\* a call in which rule 1 matches by text while rule 2 matches by status
C4_Witness ==
    \E k \in 1..Len(cls) :
        /\ cls[k].status = 429
        /\ cls[k].text = "Unauthorized"
        /\ cls[k].result = Classified(MsgInvalidKey, "error")

(***************************************************************************)
(* Vocabulary of the claims about an exchange.                             *)
(***************************************************************************)
\* a text that is empty or made of white space only
Blank(s) == \A k \in 1..Len(s) : CharAt(s, k) \in WhiteSpace

\* the step is a run of handleSubmit
SubmitStep == submits' = submits + 1

\* the step is the one in which invocation i returns
Resolves(i) == inv[i].pc # "idle" /\ inv'[i].pc = "idle"

FailureOutcomes == {"non2xx", "transport", "empty", "interrupted", "escaped"}

\* the step adds exactly one toast, at the end, and keeps the others
PushesOne == /\ Len(toasts') = Len(toasts) + 1
             /\ SubSeq(toasts', 1, Len(toasts)) = toasts

LastToast(ts) == ts[Len(ts)]

RECURSIVE Concat(_)
Concat(texts) == IF texts = <<>> THEN "" ELSE Head(texts) \o Concat(Tail(texts))

(***************************************************************************)
(* C1 (SpecForm).                                                          *)
(***************************************************************************)
\* C1: a submit with an empty or whitespace-only apiKey or userMessage
\* issues no request, leaves the message list, the in-flight flag, the
\* last-error text and the pending input unchanged, and adds exactly one
\* toast, of severity warning.
C1_RejectedSubmit ==
    [][ (SubmitStep /\ (Blank(apiKey) \/ Blank(userMessage)))
        => /\ fetches' = fetches
           /\ inv' = inv
           /\ messages' = messages
           /\ isLoading' = isLoading
           /\ error' = error
           /\ userMessage' = userMessage
           /\ PushesOne
           /\ LastToast(toasts').type = "warning" ]_vars

\* a submit with a whitespace-only apiKey has been rejected
C1_Witness ==
    /\ submits = 1
    /\ fetches = 0
    /\ apiKey = " "
    /\ userMessage = "Hi"
    /\ messages = <<>>
    /\ toasts = <<[id |-> "0", message |-> "Please enter your OpenAI API key",
                   type |-> "warning"]>>

(***************************************************************************)
(* C2 (Spec).                                                              *)
(***************************************************************************)
\* C2: at most one invocation of handleSubmit is in flight, and while the
\* in-flight flag is set no submit takes effect: handleSubmit does not run
\* and no request is issued.
C2_OneInFlight ==
    [][ /\ Cardinality(Active') <= 1
        /\ (isLoading \/ Active # {}) => (submits' = submits /\ fetches' = fetches) ]_vars

\* an exchange is in flight while the form holds a valid message and key
C2_Witness ==
    /\ isLoading
    /\ Active # {}
    /\ ~Blank(userMessage)
    /\ ~Blank(apiKey)
    /\ submits < MaxSubmits

(***************************************************************************)
(* C3 (Spec).                                                              *)
(***************************************************************************)
\* C3: when a valid submit fails before a stream is opened (response not
\* ok, or fetch rejected), the message list after resolution is the list
\* before the submit, and the in-flight flag is false.
C3_RollbackBeforeStream ==
    [][ \A i \in Handlers :
          (Resolves(i) /\ inv'[i].outcome \in {"non2xx", "transport"})
          => (messages' = inv[i].pre /\ ~isLoading') ]_vars

(***************************************************************************)
(* C5 (Spec).                                                              *)
(***************************************************************************)
\* C5: when the stream of an ok response completes with non-empty content
\* c, the message list is the list before the submit followed by the user
\* message and the assistant message c, exactly one success toast is
\* pushed, the pending input is cleared and the in-flight flag is false.
C5_SuccessfulExchange ==
    [][ \A i \in Handlers :
          ( /\ Resolves(i)
            /\ inv[i].pc = "read"
            /\ inv[i].fail = <<>>
            /\ inv[i].content # "" )
          => /\ messages' = inv[i].pre \o <<ChatMessage("user", inv[i].input),
                                            ChatMessage("assistant", inv[i].content)>>
             /\ PushesOne
             /\ LastToast(toasts').message = "Message sent successfully!"
             /\ LastToast(toasts').type = "success"
             /\ inv'[i].pushed = 1
             /\ userMessage' = ""
             /\ ~isLoading' ]_vars

(***************************************************************************)
(* C6 (Spec).                                                              *)
(***************************************************************************)
\* C6: while the stream is read, the last message of the list is the
\* assistant message and its content is the concatenation, in arrival
\* order, of the chunks received so far.
C6_ContentIsChunksSoFar ==
    \A i \in Handlers :
        inv[i].pc = "read"
        => /\ messages # <<>>
           /\ messages[Len(messages)] = ChatMessage("assistant", Concat(inv[i].got))

(***************************************************************************)
(* C7 (Spec).                                                              *)
(***************************************************************************)
\* the stream of invocation i completes without having delivered a byte
EmptyStreamEnds(i) ==
    /\ Resolves(i)
    /\ inv[i].pc = "read"
    /\ inv[i].fail = <<>>
    /\ inv[i].got = <<>>

\* C7: an ok response whose stream ends without a byte removes the
\* assistant placeholder and pushes exactly one toast, the one of status
\* 401 (invalid API key, severity error); no success toast is pushed and
\* the pending input is kept.
C7_EmptyStream ==
    [][ \A i \in Handlers :
          EmptyStreamEnds(i)
          => /\ messages # <<>> => messages[Len(messages)] = ChatMessage("assistant", "")
             /\ messages' = Slice(messages)
             /\ PushesOne
             /\ LastToast(toasts') = Toast(MsgInvalidKey, "error")
             /\ inv'[i].pushed = 1
             /\ inv'[i].outcome = "empty"
             /\ userMessage' = userMessage
             /\ ~isLoading' ]_vars

\* an exchange ended on an empty stream: its user message is the whole list
C7_Witness ==
    \E i \in Handlers :
        /\ inv[i].pc = "idle"
        /\ inv[i].outcome = "empty"
        /\ inv[i].got = <<>>
        /\ messages = <<ChatMessage("user", "Hi")>>
        /\ userMessage = "Hi"
        /\ toasts = <<[id |-> "0", message |-> MsgInvalidKey, type |-> "error"]>>

(***************************************************************************)
(* C8 (Spec).                                                              *)
(***************************************************************************)
\* C8: whenever no exchange is in progress, the message list holds no
\* assistant message with empty content.
C8_NoOrphanPlaceholder ==
    ~isLoading =>
        \A k \in 1..Len(messages) : messages[k] # ChatMessage("assistant", "")

C10_OneToastPerFailure ==
    [][ \A i \in Handlers :
          inv'[i] # inv[i]
          => IF Resolves(i) /\ inv'[i].outcome \in FailureOutcomes
             THEN PushesOne /\ inv'[i].pushed = 1
             ELSE inv'[i].pc # "idle" => (toasts' = toasts /\ inv'[i].pushed = 0) ]_vars

\* the classifier raised on the body of an error response, and the
\* exchange still pushed one toast
C10_Witness ==
    \E i \in Handlers :
        /\ inv[i].pc = "idle"
        /\ inv[i].outcome = "non2xx"
        /\ inv[i].pushed = 1
        /\ toasts = <<[id |-> "0", message |-> "Error: " \o MsgNotAFunction,
                       type |-> "error"]>>

(***************************************************************************)
(* C11 (SpecToast).                                                        *)
(***************************************************************************)
\* C11: the active toasts have pairwise distinct ids, also when two of them
\* are pushed at the same reading of the clock.
C11_DistinctIds ==
    \A j, k \in 1..Len(toasts) : j # k => toasts[j].id # toasts[k].id

(***************************************************************************)
(* C12 (SpecToast).                                                        *)
(***************************************************************************)
\* the reading of the clock at which toast t was pushed: its id (line 92)
Born(t) == CHOOSE x \in Times : ToString(x) = t.id

\* C12: no toast is active for longer than the timeout: whatever happens
\* in the meantime, a toast is removed when 5 seconds have passed since it
\* was pushed.
C12_RemovedAfterTimeout ==
    \A k \in 1..Len(toasts) : now <= Born(toasts[k]) + ToastTimeout

(***************************************************************************)
(* C13 (SpecToast).                                                        *)
(***************************************************************************)
Ids == {ToString(x) : x \in Times}

\* the toasts of ts whose id is not id, in their order
Others(ts, id) == SelectSeq(ts, LAMBDA t : t.id # id)

\* C13: removing a toast by id keeps every toast of another id, in the
\* order of insertion, and removing the same id a second time changes
\* nothing and raises no error.
C13_RemovalIdempotent ==
    \A id \in Ids :
        LET once == removeToast(toasts, id)
        IN  /\ once = Others(toasts, id)
            /\ removeToast(once, id) = once

\* the toast of clearChat has been removed and a toast of another id stays
C13_Witness ==
    /\ clears = 1
    /\ toasts # <<>>
    /\ \A k \in 1..Len(toasts) : toasts[k].message # "Chat cleared"

(***************************************************************************)
(* C14 (Spec).                                                             *)
(***************************************************************************)
\* C14: clearChat takes effect only when no exchange is in progress: while
\* the in-flight flag is set, no step runs clearChat and empties the list.
C14_ClearOnlyFromIdle ==
    [][ (isLoading \/ Active # {}) => clears' = clears ]_vars

(***************************************************************************)
(* C15 (SpecRequest).                                                      *)
(***************************************************************************)
\* C15: a valid submit appends one user message holding the input as
\* typed, sets the in-flight flag and issues exactly one request, whose
\* body holds the system prompt (or 'You are a helpful assistant.' when it
\* is empty), the input, the selected model and the credential, unaltered.
C15_ValidSubmit ==
    [][ (SubmitStep /\ ~Blank(apiKey) /\ ~Blank(userMessage))
        => /\ messages' = Append(messages, ChatMessage("user", userMessage))
           /\ isLoading'
           /\ fetches' = fetches + 1
           /\ toasts' = toasts
           /\ \E i \in Handlers :
                 /\ inv[i].pc = "idle"
                 /\ inv'[i].pc = "fetch"
                 /\ inv'[i].req =
                       [developer_message |->
                            IF developerMessage = "" THEN "You are a helpful assistant."
                            ELSE developerMessage,
                        user_message |-> userMessage,
                        model |-> model,
                        api_key |-> apiKey]
                 /\ \A j \in Handlers \ {i} : inv'[j] = inv[j] ]_vars

\* a request is pending that carries the default system prompt and a model
\* other than the initial one
C15_Witness ==
    \E i \in Handlers :
        /\ inv[i].pc = "fetch"
        /\ inv[i].req = [developer_message |-> "You are a helpful assistant.",
                         user_message |-> "Hi", model |-> "gpt-4", api_key |-> "sk-test"]
        /\ messages = <<ChatMessage("user", "Hi")>>
        /\ isLoading
        /\ fetches = 1

(***************************************************************************)
(* C16 (Spec).                                                             *)
(***************************************************************************)
\* C16: every accepted submit returns to Idle with the in-flight flag
\* cleared and with at least one toast pushed for that exchange, on every
\* path: the step in which an invocation returns leaves the flag false and
\* the count of the toasts it pushed at one or more.
C16_ReturnsWithNotification ==
    [][ \A i \in Handlers :
          Resolves(i) => (~isLoading' /\ inv'[i].pushed >= 1) ]_vars

(***************************************************************************)
(* C17 (SpecTeardown).                                                     *)
(***************************************************************************)
\* C17: once the component is unmounted no timer of a toast is scheduled
\* and no invocation of handleSubmit is suspended at a request or at a
\* read of the stream; no invocation takes a further step and no state of
\* the component changes.
C17_TeardownReleases ==
    /\ [](~mounted => (~TimersScheduled /\ Active = {}))
    /\ [][ ~mounted => UNCHANGED <<messages, userMessage, isLoading, error, toasts,
                                   inv>> ]_vars

(***************************************************************************)
(* C18 (Spec).                                                             *)
(***************************************************************************)
\* the text of the failure mentions a connection, network or chunk problem
MentionsConnection(e) ==
    \E w \in {"connection", "network", "chunk"} : includes(toLowerCase(e.s), w)

\* C18: when a read of the stream fails with a text that mentions
\* 'connection', 'network' or 'chunk' in any letter case, the toast pushed
\* is the invalid-API-key error and not the network error.
C18_ConnectionFailureIsAuthentication ==
    [][ \A i \in Handlers :
          ( /\ Resolves(i)
            /\ inv[i].pc = "read"
            /\ inv[i].fail # <<>>
            /\ MentionsConnection(inv[i].fail[1]) )
          => /\ PushesOne
             /\ LastToast(toasts') = Toast(MsgInvalidKey, "error")
             /\ LastToast(toasts').message # MsgNetwork ]_vars

\* a stream failed with 'Network error' after a chunk and the toast is the
\* invalid-API-key one
C18_Witness ==
    \E i \in Handlers :
        /\ inv[i].pc = "idle"
        /\ inv[i].outcome = "interrupted"
        /\ inv[i].got = <<"He">>
        /\ inv[i].fail = <<JsError("Network error")>>
        /\ error = MsgInvalidKey
        /\ toasts = <<[id |-> "0", message |-> MsgInvalidKey, type |-> "error"]>>

(***************************************************************************)
(* C19 (Spec).                                                             *)
(***************************************************************************)
\* C19: when the stream completes empty or is interrupted, the message
\* list after resolution is the list before the submit followed by the
\* user message of this exchange: only the assistant message of the
\* exchange has been removed.
C19_OnlyAssistantRemoved ==
    [][ \A i \in Handlers :
          (Resolves(i) /\ inv'[i].outcome \in {"empty", "interrupted"})
          => messages' = Append(inv[i].pre, ChatMessage("user", inv[i].input)) ]_vars

(***************************************************************************)
(* C20 (Spec).                                                             *)
(***************************************************************************)
\* C20: clearChat empties the message list, empties the last-error text
\* and pushes exactly one toast, 'Chat cleared' of severity info; the
\* input, the system prompt, the credential, the model, the in-flight flag
\* and the toasts already active are left as they are.
C20_ClearFrame ==
    [][ clears' # clears
        => /\ messages' = <<>>
           /\ error' = ""
           /\ PushesOne
           /\ LastToast(toasts') = Toast("Chat cleared", "info")
           /\ UNCHANGED <<userMessage, developerMessage, apiKey, model, isLoading,
                          inv, fetches>> ]_vars

\* the chat was cleared after an exchange had failed on an empty stream:
\* the toast of the failure and the input are still there
C20_Witness ==
    /\ clears = 1
    /\ messages = <<>>
    /\ error = ""
    /\ userMessage = "Hi"
    /\ ~isLoading
    /\ toasts = <<[id |-> "0", message |-> MsgInvalidKey, type |-> "error"],
                  [id |-> "0", message |-> "Chat cleared", type |-> "info"]>>
    /\ \E i \in Handlers : inv[i].outcome = "empty"

(***************************************************************************)
(* C21 (Spec).                                                             *)
(***************************************************************************)
\* the step delivers a chunk to invocation i
ChunkStep(i) == inv[i].pc = "read" /\ Len(inv'[i].got) = Len(inv[i].got) + 1

\* C21: the update made for a chunk keeps the length of the message list
\* and every message but the last; the last message, when there is one, is
\* an assistant message before and after, and only its content changes.
C21_UpdateTouchesLastOnly ==
    [][ \A i \in Handlers :
          ChunkStep(i)
          => /\ Len(messages') = Len(messages)
             /\ \A k \in 1..(Len(messages) - 1) : messages'[k] = messages[k]
             /\ messages # <<>> =>
                   /\ messages[Len(messages)].role = "assistant"
                   /\ messages'[Len(messages)] =
                          ChatMessage("assistant", inv'[i].content) ]_vars

\* the second chunk of a second exchange has arrived: the messages of the
\* first exchange and the user message are as they were
C21_Witness ==
    \E i \in Handlers :
        /\ inv[i].pc = "read"
        /\ inv[i].got = <<"He", "llo">>
        /\ Len(inv[i].pre) = 2
        /\ messages = inv[i].pre \o <<ChatMessage("user", "Hi"),
                                        ChatMessage("assistant", "Hello")>>

(***************************************************************************)
(* C22 (SpecClassify).                                                     *)
(***************************************************************************)
\* C22: the classifier raises for no input: every call returns a message
\* and a severity.
C22_NeverRaises ==
    \A k \in 1..Len(cls) : ~cls[k].result.threw

(***************************************************************************)
(* C23 (Spec).                                                             *)
(***************************************************************************)
\* C23: every assistant message of the list comes right after a user
\* message.
C23_AssistantFollowsUser ==
    \A k \in 1..Len(messages) :
        messages[k].role = "assistant"
        => (k > 1 /\ messages[k - 1].role = "user")

(***************************************************************************)
(* C24 (Spec).                                                             *)
(***************************************************************************)
\* C24: a run of handleSubmit changes neither the credential, the model
\* nor the system prompt, and it changes the input in one case only: the
\* exchange resolves as a success, and the input is emptied.  A rejected
\* submit and an exchange that ends in any other way leave the input as
\* it is.
C24_InputKeptUnlessSuccess ==
    [][ /\ (SubmitStep \/ \E i \in Handlers : inv'[i] # inv[i])
           => UNCHANGED <<apiKey, model, developerMessage>>
        /\ SubmitStep => UNCHANGED userMessage
        /\ \A i \in Handlers :
              inv'[i] # inv[i]
              => IF Resolves(i) /\ inv'[i].outcome = "success"
                 THEN userMessage' = ""
                 ELSE UNCHANGED userMessage ]_vars

(***************************************************************************)
(* C25 (Spec).                                                             *)
(***************************************************************************)
\* C25: when a read of the stream fails, whatever the text of the failure,
\* exactly one toast is pushed, it is the invalid-API-key error, and the
\* last error is set to the same message.
C25_InterruptionIsInvalidKey ==
    [][ \A i \in Handlers :
          ( /\ Resolves(i)
            /\ inv[i].pc = "read"
            /\ inv[i].fail # <<>>
            /\ inv[i].chunks = <<>> )
          => /\ inv'[i].outcome = "interrupted"
             /\ PushesOne
             /\ LastToast(toasts') = Toast(MsgInvalidKey, "error")
             /\ error' = MsgInvalidKey ]_vars

\* a stream was interrupted after a chunk by the failure 'Rate limit',
\* which names no connection problem and which the rate-limit rule would
\* match without the status; the toast is the invalid-API-key error
C25_Witness ==
    \E i \in Handlers :
        /\ inv[i].pc = "idle"
        /\ inv[i].outcome = "interrupted"
        /\ inv[i].got = <<"He">>
        /\ inv[i].fail = <<JsError("Rate limit")>>
        /\ ~MentionsConnection(inv[i].fail[1])
        /\ FirstMatch("Rate limit", NoStatus) = Classified(MsgRateLimit, "warning")
        /\ error = MsgInvalidKey
        /\ toasts = <<[id |-> "0", message |-> MsgInvalidKey, type |-> "error"]>>

====
